---- MODULE Spec2Model ----
(***************************************************************************)
(* Model of scripts/backfill_stock_prices.py: the Alpha Vantage fetcher,   *)
(* the Snowflake writer (delete-then-insert upsert) and the driver loop.   *)
(***************************************************************************)
EXTENDS Integers, Sequences, FiniteSets, Bags, TLC

(* ------------------------------------------------------------------ *)
(* Bounds of the model                                                  *)
(* ------------------------------------------------------------------ *)
\* longest record list handed to the writer by the writer harness
MaxLen == 3
\* most rows of a pre-existing table
MaxInitRows == 2
\* longest ticker list of the driver runs
MaxTickers == 3
\* longest ticker list of the rate-limit runs
MaxRateTickers == 6
\* most time-series entries of a provider payload
MaxEntries == 2
\* longest record list of each of two writers running at once
MaxConcLen == 1
\* store timestamps (FETCHED_AT) beyond this one are not told apart
MaxStamp == 2

(* ------------------------------------------------------------------ *)
(* Program constants                                                    *)
(* ------------------------------------------------------------------ *)
SleepSeconds == 15
RequestTimeout == 20
RateLimitCalls == 5
RateWindow == 60
HttpTooManyRequests == 429

Symbols == {"A", "B"}
Writers == {1, 2}

(* ------------------------------------------------------------------ *)
(* Provider payload: strings, and what the code parses them to          *)
(* ------------------------------------------------------------------ *)
\* keys of the "Time Series (Daily)" object
DateStrs == {"2024-01-02", "2024-01-03", "2024-1-2", "n/a"}
\* values of the "1. open" .. "5. volume" fields
NumStrs == {"10", "11.5", "abc"}
FieldNames == {"1. open", "2. high", "3. low", "4. close", "5. volume"}

\* datetime.strptime(date_str, "%Y-%m-%d") raises ValueError
StrptimeRaises(s) == s \notin {"2024-01-02", "2024-01-03", "2024-1-2"}
\* datetime.strptime(date_str, "%Y-%m-%d").date(), as the day of January 2024;
\* %m and %d accept one digit, so "2024-1-2" is the date of "2024-01-02"
Strptime(s) == CASE s = "2024-01-02" -> 2
                 [] s = "2024-1-2" -> 2
                 [] s = "2024-01-03" -> 3
                 [] OTHER -> 0

\* float(x) raises ValueError
FloatRaises(x) == x \notin {"10", "11.5"}
\* float(x), in tenths
Float(x) == CASE x = "10" -> 100
              [] x = "11.5" -> 115
              [] OTHER -> 0
\* int(x) raises ValueError: int("11.5") does
IntRaises(x) == x # "10"
\* int(x)
Int_(x) == CASE x = "10" -> 10
             [] OTHER -> 0

\* a record of the fetcher: (as_of_date, symbol, o, h, l, c, v)
Rec(d, s, o, h, l, c, v) == <<d, s, o, h, l, c, v>>

NoRec == <<>>

\* one iteration of the loop over ts.items(): the record, or the exception
ParseEntry(symbol, date_str, vals) ==
    IF StrptimeRaises(date_str) THEN [exc |-> "ValueError", rec |-> NoRec]
    ELSE IF "1. open" \notin DOMAIN vals THEN [exc |-> "KeyError", rec |-> NoRec]
    ELSE IF FloatRaises(vals["1. open"]) THEN [exc |-> "ValueError", rec |-> NoRec]
    ELSE IF "2. high" \notin DOMAIN vals THEN [exc |-> "KeyError", rec |-> NoRec]
    ELSE IF FloatRaises(vals["2. high"]) THEN [exc |-> "ValueError", rec |-> NoRec]
    ELSE IF "3. low" \notin DOMAIN vals THEN [exc |-> "KeyError", rec |-> NoRec]
    ELSE IF FloatRaises(vals["3. low"]) THEN [exc |-> "ValueError", rec |-> NoRec]
    ELSE IF "4. close" \notin DOMAIN vals THEN [exc |-> "KeyError", rec |-> NoRec]
    ELSE IF FloatRaises(vals["4. close"]) THEN [exc |-> "ValueError", rec |-> NoRec]
    ELSE IF "5. volume" \notin DOMAIN vals THEN [exc |-> "KeyError", rec |-> NoRec]
    ELSE IF IntRaises(vals["5. volume"]) THEN [exc |-> "ValueError", rec |-> NoRec]
    ELSE [exc |-> "none",
          rec |-> Rec(Strptime(date_str), symbol, Float(vals["1. open"]),
                      Float(vals["2. high"]), Float(vals["3. low"]),
                      Float(vals["4. close"]), Int_(vals["5. volume"]))]

\* the loop over ts.items(), in the payload's order: stops at the first exception
RECURSIVE ParseEntries(_, _)
ParseEntries(symbol, ts) ==
    IF ts = <<>> THEN [exc |-> "none", records |-> <<>>]
    ELSE LET e == ParseEntry(symbol, Head(ts)[1], Head(ts)[2])
         IN IF e.exc # "none" THEN [exc |-> e.exc, records |-> <<>>]
            ELSE LET rest == ParseEntries(symbol, Tail(ts))
                 IN IF rest.exc # "none" THEN rest
                    ELSE [exc |-> "none", records |-> <<e.rec>> \o rest.records]

\* r placed into the date-sorted list s, after the records of the same date
RECURSIVE InsertSorted(_, _)
InsertSorted(r, s) ==
    IF s = <<>> THEN <<r>>
    ELSE IF r[1] < Head(s)[1] THEN <<r>> \o s
    ELSE <<Head(s)>> \o InsertSorted(r, Tail(s))

\* the mutant of SortByDate: the list as the payload ordered it
SortByDate_Unsorted(recs) == recs

\* records.sort(key=lambda r: r[0]): a stable sort by date, ascending
RECURSIVE SortByDate(_)
SortByDate(recs) ==
    IF recs = <<>> THEN <<>>
    ELSE InsertSorted(recs[Len(recs)], SortByDate(SubSeq(recs, 1, Len(recs) - 1)))

\* the mutant of fetch_history_for_symbol: a status that is not a success
\* raises (resp.raise_for_status()) where the code warns and returns []
fetch_history_for_symbol_RaiseForStatus(symbol, resp) ==
    IF resp.kind = "timeout" THEN [exc |-> "RequestException", records |-> <<>>]
    ELSE IF resp.status >= 400 THEN [exc |-> "HTTPError", records |-> <<>>]
    ELSE IF ~resp.json THEN [exc |-> "JSONDecodeError", records |-> <<>>]
    ELSE IF ~resp.hasTs THEN [exc |-> "none", records |-> <<>>]
    ELSE LET p == ParseEntries(symbol, resp.ts)
         IN IF p.exc # "none" THEN p
            ELSE [exc |-> "none", records |-> SortByDate(p.records)]

\* fetch_history_for_symbol(symbol), given what requests.get does:
\* the list it returns, or the exception it lets through
fetch_history_for_symbol(symbol, resp) ==
    IF resp.kind = "timeout" THEN [exc |-> "RequestException", records |-> <<>>]
    ELSE IF resp.status = HttpTooManyRequests THEN [exc |-> "none", records |-> <<>>]
    ELSE IF resp.status >= 400 THEN [exc |-> "none", records |-> <<>>]
    ELSE IF ~resp.json THEN [exc |-> "JSONDecodeError", records |-> <<>>]
    ELSE IF ~resp.hasTs THEN [exc |-> "none", records |-> <<>>]
    ELSE LET p == ParseEntries(symbol, resp.ts)
         IN IF p.exc # "none" THEN p
            ELSE [exc |-> "none", records |-> SortByDate(p.records)]

(* ------------------------------------------------------------------ *)
(* State                                                                *)
(* ------------------------------------------------------------------ *)
VARIABLES
    \* the store: DBT_DEMO.RAW.STOCK_PRICES and its sessions
    table,          \* committed rows, a bag of (date, symbol, o, h, l, c, v, fetched_at)
    session,        \* the rows as the session holding the open transaction sees them
    lock,           \* the writer whose transaction is open, 0 when none is
    autocommit,     \* the session parameter AUTOCOMMIT, which connect() leaves as the account has it
    schemaExists,
    tableExists,
    dbNow,          \* CURRENT_TIMESTAMP() of the latest session
    dbOps,          \* database calls made since the latest HTTP request
    \* insert_history_into_snowflake, one activation per writer
    wpc,            \* position in the function
    records,        \* its argument
    idx,            \* position of the for loop in records
    connOpen,       \* ctx is connected
    cs,             \* the local cs: "unbound", "open" or "closed"
    exc,            \* the exception in flight, "none" when there is none
    excAt,          \* the statement that raised it
    commits,        \* ctx.commit() calls that succeeded in this activation
    stamp,          \* CURRENT_TIMESTAMP() of its session
    table0,         \* the committed rows when it was called
    repeat,         \* this activation repeats the previous call's argument
    callsLeft,      \* calls the writer's caller still makes
    overlapped,     \* some call began while another writer's call was under way
    \* fetch_history_for_symbol
    fetchSym,       \* its argument
    fetchResp,      \* what requests.get does
    fetchOut,       \* what it returns or raises
    \* main
    tickers,        \* TICKERS
    ti,             \* position of the for loop in TICKERS
    mpc,            \* position in main
    total,
    now,            \* the clock
    reqTimes,       \* the clock at each HTTP request
    httpCalls,      \* the symbol of each HTTP request
    sumFetched,     \* record counts the fetches returned, summed
    crashCause      \* what ended main with an exception

dbVars == <<table, session, lock, autocommit, schemaExists, tableExists, dbNow, dbOps>>
wVars == <<wpc, records, idx, connOpen, cs, exc, excAt, commits, stamp, table0, repeat, callsLeft,
          overlapped>>
fVars == <<fetchSym, fetchResp, fetchOut>>
mVars == <<tickers, ti, mpc, total, now, reqTimes, httpCalls, sumFetched, crashCause>>
vars == <<dbVars, wVars, fVars, mVars>>

(* ------------------------------------------------------------------ *)
(* The store                                                            *)
(* ------------------------------------------------------------------ *)
Row(rec, fetched_at) == Append(rec, fetched_at)
KeyOf(r) == <<r[1], r[2]>>
\* a row without FETCHED_AT
Cols(r) == SubSeq(r, 1, 7)

\* the mutant of DeleteRows: WHERE AS_OF_DATE = %s alone
DeleteRows_ByDate(t, as_of_date, symbol) ==
    LET keep == {r \in DOMAIN t : r[1] # as_of_date}
    IN [r \in keep |-> t[r]]

\* the mutant of DeleteRows: a statement that removes nothing
DeleteRows_Nothing(t, as_of_date, symbol) == t

\* DELETE FROM STOCK_PRICES WHERE AS_OF_DATE = %s AND SYMBOL = %s
DeleteRows(t, as_of_date, symbol) ==
    LET keep == {r \in DOMAIN t : ~(r[1] = as_of_date /\ r[2] = symbol)}
    IN [r \in keep |-> t[r]]

\* INSERT INTO STOCK_PRICES (...) VALUES (...): FETCHED_AT takes its default, and
\* the primary key of a Snowflake table is not enforced
InsertRow(t, rec, fetched_at) == t (+) SetToBag({Row(rec, fetched_at)})

\* rows of t with the key k
RowsWithKey(t, k) == {r \in DOMAIN t : KeyOf(r) = k}
CountKey(t, k) ==
    LET S == RowsWithKey(t, k)
        RECURSIVE Sum(_)
        Sum(X) == IF X = {} THEN 0
                  ELSE LET x == CHOOSE y \in X : TRUE IN t[x] + Sum(X \ {x})
    IN Sum(S)
KeysOf(t) == {KeyOf(r) : r \in DOMAIN t}
UniqueKeyed(t) == \A k \in KeysOf(t) : CountKey(t, k) = 1

\* the rows a statement of writer w works on
Base(w) == IF lock = w THEN session ELSE table

\* a DML statement of writer w that leaves the rows as new: committed at once
\* under AUTOCOMMIT, else part of w's open transaction
ExecDML(w, new) ==
    IF autocommit
    THEN /\ table' = new
         /\ session' = new
         /\ lock' = 0
    ELSE /\ session' = new
         /\ lock' = w
         /\ UNCHANGED table

\* the next CURRENT_TIMESTAMP()
NextStamp == IF dbNow < MaxStamp THEN dbNow + 1 ELSE MaxStamp

(* ------------------------------------------------------------------ *)
(* insert_history_into_snowflake(records)                               *)
(* ------------------------------------------------------------------ *)
\* the call: the activation of writer w starts on recs
EnterWriter(w, recs, again) ==
    /\ wpc' = [wpc EXCEPT ![w] = "entry"]
    /\ records' = [records EXCEPT ![w] = recs]
    /\ idx' = [idx EXCEPT ![w] = 1]
    /\ connOpen' = [connOpen EXCEPT ![w] = FALSE]
    /\ cs' = [cs EXCEPT ![w] = "unbound"]
    /\ exc' = [exc EXCEPT ![w] = "none"]
    /\ excAt' = [excAt EXCEPT ![w] = "none"]
    /\ commits' = [commits EXCEPT ![w] = 0]
    /\ table0' = [table0 EXCEPT ![w] = table]
    /\ repeat' = [repeat EXCEPT ![w] = again]
    /\ overlapped' = (overlapped \/ \E v \in Writers \ {w} :
                                      wpc[v] \notin {"idle", "returned", "raised"})
    /\ UNCHANGED stamp

\* a statement inside the try block raises: control goes to the finally block
Raise(w, at) ==
    /\ exc' = [exc EXCEPT ![w] = "DatabaseError"]
    /\ excAt' = [excAt EXCEPT ![w] = at]
    /\ wpc' = [wpc EXCEPT ![w] = "finally_cs"]

\* if not records: return; then the os.environ reads
WriterEntry(w) ==
    /\ wpc[w] = "entry"
    /\ \E ok \in BOOLEAN :
         IF records[w] = <<>>
         THEN /\ ok
              /\ wpc' = [wpc EXCEPT ![w] = "returned"]
              /\ UNCHANGED <<exc, excAt>>
         ELSE IF ok
         THEN /\ wpc' = [wpc EXCEPT ![w] = "connect"]
              /\ UNCHANGED <<exc, excAt>>
         ELSE \* a required variable is not set: KeyError, before any connection
              /\ wpc' = [wpc EXCEPT ![w] = "raised"]
              /\ exc' = [exc EXCEPT ![w] = "KeyError"]
              /\ excAt' = [excAt EXCEPT ![w] = "environ"]
    /\ UNCHANGED <<dbVars, records, idx, connOpen, cs, commits, stamp, table0, repeat,
                   callsLeft, overlapped, fVars, mVars>>

\* ctx = snowflake.connector.connect(...), outside the try block
WriterConnect(w) ==
    /\ wpc[w] = "connect"
    /\ dbOps' = dbOps + 1
    /\ \E ok \in BOOLEAN :
         IF ok
         THEN /\ connOpen' = [connOpen EXCEPT ![w] = TRUE]
              /\ stamp' = [stamp EXCEPT ![w] = NextStamp]
              /\ dbNow' = NextStamp
              /\ wpc' = [wpc EXCEPT ![w] = "cursor"]
              /\ UNCHANGED <<exc, excAt>>
         ELSE /\ wpc' = [wpc EXCEPT ![w] = "raised"]
              /\ exc' = [exc EXCEPT ![w] = "DatabaseError"]
              /\ excAt' = [excAt EXCEPT ![w] = "connect"]
              /\ UNCHANGED <<connOpen, stamp, dbNow>>
    /\ UNCHANGED <<table, session, lock, autocommit, schemaExists, tableExists,
                   records, idx, cs, commits, table0, repeat, callsLeft, overlapped, fVars, mVars>>

\* cs = ctx.cursor(), the first statement of the try block
WriterCursor(w) ==
    /\ wpc[w] = "cursor"
    /\ dbOps' = dbOps + 1
    /\ \E ok \in BOOLEAN :
         IF ok
         THEN /\ cs' = [cs EXCEPT ![w] = "open"]
              /\ wpc' = [wpc EXCEPT ![w] = "create_schema"]
              /\ UNCHANGED <<exc, excAt>>
         ELSE /\ Raise(w, "cursor")
              /\ UNCHANGED cs
    /\ UNCHANGED <<table, session, lock, autocommit, schemaExists, tableExists, dbNow,
                   records, idx, connOpen, commits, stamp, table0, repeat, callsLeft, overlapped,
                   fVars, mVars>>

\* cs.execute("CREATE SCHEMA IF NOT EXISTS ...")
WriterCreateSchema(w) ==
    /\ wpc[w] = "create_schema"
    /\ dbOps' = dbOps + 1
    /\ \E ok \in BOOLEAN :
         IF ok
         THEN /\ schemaExists' = TRUE
              /\ wpc' = [wpc EXCEPT ![w] = "create_table"]
              /\ UNCHANGED <<exc, excAt>>
         ELSE /\ Raise(w, "create_schema")
              /\ UNCHANGED schemaExists
    /\ UNCHANGED <<table, session, lock, autocommit, tableExists, dbNow,
                   records, idx, connOpen, cs, commits, stamp, table0, repeat, callsLeft, overlapped,
                   fVars, mVars>>

\* cs.execute("CREATE TABLE IF NOT EXISTS ... STOCK_PRICES ...")
WriterCreateTable(w) ==
    /\ wpc[w] = "create_table"
    /\ dbOps' = dbOps + 1
    /\ \E ok \in BOOLEAN :
         IF ok
         THEN /\ tableExists' = TRUE
              /\ wpc' = [wpc EXCEPT ![w] = "delete"]
              /\ UNCHANGED <<exc, excAt>>
         ELSE /\ Raise(w, "create_table")
              /\ UNCHANGED tableExists
    /\ UNCHANGED <<table, session, lock, autocommit, schemaExists, dbNow,
                   records, idx, connOpen, cs, commits, stamp, table0, repeat, callsLeft, overlapped,
                   fVars, mVars>>

\* cs.execute(delete_sql, (as_of_date, symbol)); a DELETE waits for the table's
\* lock while another session's transaction holds it
WriterDelete(w) ==
    /\ wpc[w] = "delete"
    /\ lock \in {0, w}
    /\ dbOps' = dbOps + 1
    /\ \E ok \in BOOLEAN :
         IF ok
         THEN /\ ExecDML(w, DeleteRows(Base(w), records[w][idx[w]][1], records[w][idx[w]][2]))
              /\ wpc' = [wpc EXCEPT ![w] = "insert"]
              /\ UNCHANGED <<exc, excAt>>
         ELSE /\ Raise(w, "delete")
              /\ UNCHANGED <<table, session, lock>>
    /\ UNCHANGED <<autocommit, schemaExists, tableExists, dbNow,
                   records, idx, connOpen, cs, commits, stamp, table0, repeat, callsLeft, overlapped,
                   fVars, mVars>>

\* cs.execute(insert_sql, rec), and the loop's step to the next record
WriterInsert(w) ==
    /\ wpc[w] = "insert"
    /\ lock \in {0, w}
    /\ dbOps' = dbOps + 1
    /\ \E ok \in BOOLEAN :
         IF ok
         THEN /\ ExecDML(w, InsertRow(Base(w), records[w][idx[w]], stamp[w]))
              /\ idx' = [idx EXCEPT ![w] = idx[w] + 1]
              /\ wpc' = [wpc EXCEPT ![w] = IF idx[w] < Len(records[w])
                                             THEN "delete" ELSE "commit"]
              /\ UNCHANGED <<exc, excAt>>
         ELSE /\ Raise(w, "insert")
              /\ UNCHANGED <<table, session, lock, idx>>
    /\ UNCHANGED <<autocommit, schemaExists, tableExists, dbNow,
                   records, connOpen, cs, commits, stamp, table0, repeat, callsLeft, overlapped,
                   fVars, mVars>>

\* ctx.commit(), the last statement of the try block
WriterCommit(w) ==
    /\ wpc[w] = "commit"
    /\ dbOps' = dbOps + 1
    /\ \E ok \in BOOLEAN :
         IF ok
         THEN /\ IF lock = w
                 THEN /\ table' = session
                      /\ lock' = 0
                      /\ UNCHANGED session
                 ELSE UNCHANGED <<table, session, lock>>
              /\ commits' = [commits EXCEPT ![w] = commits[w] + 1]
              /\ wpc' = [wpc EXCEPT ![w] = "finally_cs"]
              /\ UNCHANGED <<exc, excAt>>
         ELSE /\ Raise(w, "commit")
              /\ UNCHANGED <<table, session, lock, commits>>
    /\ UNCHANGED <<autocommit, schemaExists, tableExists, dbNow,
                   records, idx, connOpen, cs, stamp, table0, repeat, callsLeft, overlapped,
                   fVars, mVars>>

\* finally: cs.close(). When ctx.cursor() raised, cs was never bound: the
\* statement raises UnboundLocalError and ctx.close() is not reached. When
\* cs.close() raises, ctx.close() is not reached either.
WriterCloseCursor(w) ==
    /\ wpc[w] = "finally_cs"
    /\ IF cs[w] = "unbound"
       THEN /\ exc' = [exc EXCEPT ![w] = "UnboundLocalError"]
            /\ wpc' = [wpc EXCEPT ![w] = "raised"]
            /\ UNCHANGED <<cs, excAt, dbOps>>
       ELSE /\ dbOps' = dbOps + 1
            /\ \E ok \in BOOLEAN :
                 IF ok
                 THEN /\ cs' = [cs EXCEPT ![w] = "closed"]
                      /\ wpc' = [wpc EXCEPT ![w] = "finally_ctx"]
                      /\ UNCHANGED <<exc, excAt>>
                 ELSE /\ \E left \in {"open", "closed"} : cs' = [cs EXCEPT ![w] = left]
                      /\ exc' = [exc EXCEPT ![w] = "DatabaseError"]
                      /\ excAt' = [excAt EXCEPT ![w] =
                                     IF excAt[w] = "none" THEN "cs.close" ELSE excAt[w]]
                      /\ wpc' = [wpc EXCEPT ![w] = "raised"]
    /\ UNCHANGED <<table, session, lock, autocommit, schemaExists, tableExists, dbNow,
                   records, idx, connOpen, commits, stamp, table0, repeat, callsLeft, overlapped,
                   fVars, mVars>>

\* finally: ctx.close(); the session ends and its open transaction is rolled
\* back. Then the function returns, or the exception in flight goes on.
WriterCloseConn(w) ==
    /\ wpc[w] = "finally_ctx"
    /\ dbOps' = dbOps + 1
    /\ connOpen' = [connOpen EXCEPT ![w] = FALSE]
    /\ IF lock = w
       THEN /\ session' = table
            /\ lock' = 0
       ELSE UNCHANGED <<session, lock>>
    /\ wpc' = [wpc EXCEPT ![w] = IF exc[w] = "none" THEN "returned" ELSE "raised"]
    /\ UNCHANGED <<table, autocommit, schemaExists, tableExists, dbNow,
                   records, idx, cs, exc, excAt, commits, stamp, table0, repeat, callsLeft, overlapped,
                   fVars, mVars>>

WriterStep(w) ==
    \/ WriterEntry(w)
    \/ WriterConnect(w)
    \/ WriterCursor(w)
    \/ WriterCreateSchema(w)
    \/ WriterCreateTable(w)
    \/ WriterDelete(w)
    \/ WriterInsert(w)
    \/ WriterCommit(w)
    \/ WriterCloseCursor(w)
    \/ WriterCloseConn(w)

(* ------------------------------------------------------------------ *)
(* Inputs                                                               *)
(* ------------------------------------------------------------------ *)
\* the sequences over S of length at most n
SeqsUpTo(S, n) == UNION {[1..k -> S] : k \in 0..n}

\* what requests.get(url, timeout=20) does: raises, or returns a response
Resp(kind, status, json, hasTs, ts) ==
    [kind |-> kind, status |-> status, json |-> json, hasTs |-> hasTs, ts |-> ts]
NoResp == Resp("none", 0, FALSE, FALSE, <<>>)
TimeoutResp == Resp("timeout", 0, FALSE, FALSE, <<>>)
Statuses == {200, 429, 500}

\* the fields of one time-series entry
GoodVals == [f \in FieldNames |-> "10"]
WithField(f, x) == [GoodVals EXCEPT ![f] = x]
WithoutField(f) == [g \in FieldNames \ {f} |-> "10"]
ValsSet == {GoodVals}
             \cup {WithField(f, x) : f \in FieldNames, x \in NumStrs}
             \cup {WithoutField(f) : f \in FieldNames}
Entries == DateStrs \X ValsSet

\* a JSON object's entries in its order: no key twice
DistinctKeys(ts) == \A i, j \in 1..Len(ts) : i # j => ts[i][1] # ts[j][1]
Payloads(E, n) == {ts \in SeqsUpTo(E, n) : DistinctKeys(ts)}

FetchResponses ==
    {TimeoutResp}
      \cup {Resp("http", st, FALSE, FALSE, <<>>) : st \in Statuses}
      \cup {Resp("http", st, TRUE, FALSE, <<>>) : st \in Statuses}
      \cup {Resp("http", 200, TRUE, TRUE, ts) : ts \in Payloads(Entries, MaxEntries)}

\* the payloads the driver runs meet
MainPayloads ==
    { <<>>,
      << <<"2024-01-03", GoodVals>> >>,
      << <<"2024-01-03", GoodVals>>, <<"2024-01-02", WithField("1. open", "11.5")>> >>,
      << <<"2024-01-02", WithField("1. open", "11.5")>>, <<"2024-1-2", GoodVals>> >>,
      << <<"2024-01-03", GoodVals>>, <<"n/a", GoodVals>> >> }
MainResponses ==
    {TimeoutResp,
     Resp("http", 429, FALSE, FALSE, <<>>),
     Resp("http", 500, FALSE, FALSE, <<>>),
     Resp("http", 200, FALSE, FALSE, <<>>),
     Resp("http", 200, TRUE, FALSE, <<>>)}
      \cup {Resp("http", 200, TRUE, TRUE, ts) : ts \in MainPayloads}
\* the outcomes of a fetch that the fetcher reports as a warning
Recoverable(resp) ==
    /\ resp.kind = "http"
    /\ \/ resp.status >= 400
       \/ resp.json /\ ~resp.hasTs

\* the records the writer's callers hand to it
\* two values for one key, another date of its symbol, another symbol on its date
HarnessRecords ==
    {Rec(2, "A", 100, 100, 100, 100, 10), Rec(2, "A", 115, 100, 100, 100, 10),
     Rec(3, "A", 100, 100, 100, 100, 10), Rec(2, "B", 100, 100, 100, 100, 10)}
RecordLists == SeqsUpTo(HarnessRecords, MaxLen)

\* the records two jobs running at once hand to their writers: one symbol, so
\* that both write the same keys
ConcRecords == {r \in HarnessRecords : r[2] = "A"}
ConcRecordLists == SeqsUpTo(ConcRecords, MaxConcLen)

\* the tables a call may find
InitTablesAny ==
    {SetToBag(S) : S \in {X \in SUBSET {Row(r, 0) : r \in HarnessRecords} :
                            Cardinality(X) <= MaxInitRows}}
InitTablesUnique == {t \in InitTablesAny : UniqueKeyed(t)}

Pending == [exc |-> "pending", records |-> <<>>]
Idle == [exc |-> "idle", records |-> <<>>]

(* ------------------------------------------------------------------ *)
(* The callers                                                          *)
(* ------------------------------------------------------------------ *)
\* a caller of the writer: a first call on any record list, then the same
\* call again once the first has returned
HarnessCall(w) ==
    /\ callsLeft[w] > 0
    /\ \/ /\ wpc[w] = "idle"
          /\ \E recs \in RecordLists : EnterWriter(w, recs, FALSE)
       \/ /\ wpc[w] = "returned"
          /\ EnterWriter(w, records[w], TRUE)
    /\ callsLeft' = [callsLeft EXCEPT ![w] = callsLeft[w] - 1]
    /\ UNCHANGED <<dbVars, fVars, mVars>>

\* the caller of one of two jobs running at once: one call
ConcurrentCall(w) ==
    /\ callsLeft[w] > 0
    /\ wpc[w] = "idle"
    /\ \E recs \in ConcRecordLists : EnterWriter(w, recs, FALSE)
    /\ callsLeft' = [callsLeft EXCEPT ![w] = callsLeft[w] - 1]
    /\ UNCHANGED <<dbVars, fVars, mVars>>

\* the body of fetch_history_for_symbol on the response it got
FetchCall ==
    /\ fetchOut = Pending
    /\ fetchOut' = fetch_history_for_symbol(fetchSym, fetchResp)
    /\ UNCHANGED <<fetchSym, fetchResp, dbVars, wVars, mVars>>

(* ------------------------------------------------------------------ *)
(* main()                                                               *)
(* ------------------------------------------------------------------ *)
\* for symbol in TICKERS: records = fetch_history_for_symbol(symbol), up to
\* the HTTP request, which takes no time or all of its timeout
MainRequest(responses, waits) ==
    /\ mpc = "loop"
    /\ ti <= Len(tickers)
    /\ \E resp \in responses, elapsed \in waits :
         /\ fetchSym' = tickers[ti]
         /\ fetchResp' = resp
         /\ fetchOut' = Pending
         /\ reqTimes' = Append(reqTimes, now)
         /\ httpCalls' = Append(httpCalls, tickers[ti])
         /\ now' = now + elapsed
    /\ dbOps' = 0
    /\ mpc' = "fetch"
    /\ UNCHANGED <<table, session, lock, autocommit, schemaExists, tableExists, dbNow,
                   wVars, tickers, ti, total, sumFetched, crashCause>>

\* the responses and the waits of the driver runs, and of the rate-limit runs
MainWaits == {0}
RateResponses ==
    {Resp("http", 429, FALSE, FALSE, <<>>),
     Resp("http", 200, TRUE, TRUE, <<>>),
     Resp("http", 200, TRUE, TRUE, << <<"2024-01-03", GoodVals>> >>)}
RateWaits == {0, RequestTimeout}

\* the fetch has returned: insert_history_into_snowflake(records) is called;
\* an exception of the fetch ends main
MainFetched ==
    /\ mpc = "fetch"
    /\ fetchOut # Pending
    /\ IF fetchOut.exc = "none"
       THEN /\ EnterWriter(1, fetchOut.records, FALSE)
            /\ sumFetched' = sumFetched + Len(fetchOut.records)
            /\ mpc' = "insert"
            /\ UNCHANGED crashCause
       ELSE /\ mpc' = "crashed"
            /\ crashCause' = "fetch"
            /\ UNCHANGED <<wpc, records, idx, connOpen, cs, exc, excAt, commits, stamp,
                           table0, repeat, overlapped, sumFetched>>
    /\ UNCHANGED <<dbVars, callsLeft, fVars, tickers, ti, total, now, reqTimes, httpCalls>>

\* the writer has returned: total += len(records); its exception ends main
MainInserted ==
    /\ mpc = "insert"
    /\ wpc[1] \in {"returned", "raised"}
    /\ IF wpc[1] = "returned"
       THEN /\ total' = total + Len(fetchOut.records)
            /\ mpc' = "sleep"
            /\ UNCHANGED crashCause
       ELSE /\ mpc' = "crashed"
            /\ crashCause' = "database"
            /\ UNCHANGED total
    /\ UNCHANGED <<dbVars, wVars, fVars, tickers, ti, now, reqTimes, httpCalls, sumFetched>>

\* the mutant of MainSleep: the pause is skipped when the fetch returned nothing
MainSleep_SkipWhenEmpty ==
    /\ mpc = "sleep"
    /\ now' = IF fetchOut.records = <<>> THEN now ELSE now + SleepSeconds
    /\ ti' = ti + 1
    /\ mpc' = "loop"
    /\ UNCHANGED <<dbVars, wVars, fVars, tickers, total, reqTimes, httpCalls, sumFetched,
                   crashCause>>

\* time.sleep(15), and the loop's step to the next ticker
MainSleep ==
    /\ mpc = "sleep"
    /\ now' = now + SleepSeconds
    /\ ti' = ti + 1
    /\ mpc' = "loop"
    /\ UNCHANGED <<dbVars, wVars, fVars, tickers, total, reqTimes, httpCalls, sumFetched,
                   crashCause>>

\* the loop is over: print(f"Done. Upserted {total} ...")
MainDone ==
    /\ mpc = "loop"
    /\ ti > Len(tickers)
    /\ mpc' = "done"
    /\ UNCHANGED <<dbVars, wVars, fVars, tickers, ti, total, now, reqTimes, httpCalls,
                   sumFetched, crashCause>>

(* ------------------------------------------------------------------ *)
(* Specifications                                                       *)
(* ------------------------------------------------------------------ *)
InitStore(tables) ==
    /\ table \in tables
    /\ session = table
    /\ lock = 0
    /\ autocommit \in BOOLEAN
    /\ tableExists \in (IF table = EmptyBag THEN BOOLEAN ELSE {TRUE})
    /\ schemaExists = tableExists
    /\ dbNow = 0
    /\ dbOps = 0

InitWriters(calls) ==
    /\ wpc = [w \in Writers |-> "idle"]
    /\ records = [w \in Writers |-> <<>>]
    /\ idx = [w \in Writers |-> 1]
    /\ connOpen = [w \in Writers |-> FALSE]
    /\ cs = [w \in Writers |-> "unbound"]
    /\ exc = [w \in Writers |-> "none"]
    /\ excAt = [w \in Writers |-> "none"]
    /\ commits = [w \in Writers |-> 0]
    /\ stamp = [w \in Writers |-> 0]
    /\ table0 = [w \in Writers |-> EmptyBag]
    /\ repeat = [w \in Writers |-> FALSE]
    /\ callsLeft = calls
    /\ overlapped = FALSE

InitFetchIdle ==
    /\ fetchSym = "A"
    /\ fetchResp = NoResp
    /\ fetchOut = Idle

InitMainOff ==
    /\ tickers = <<>>
    /\ ti = 1
    /\ mpc = "off"
    /\ total = 0
    /\ now = 0
    /\ reqTimes = <<>>
    /\ httpCalls = <<>>
    /\ sumFetched = 0
    /\ crashCause = "none"

InitMain(lists) ==
    /\ tickers \in lists
    /\ ti = 1
    /\ mpc = "loop"
    /\ total = 0
    /\ now = 0
    /\ reqTimes = <<>>
    /\ httpCalls = <<>>
    /\ sumFetched = 0
    /\ crashCause = "none"

\* the fetcher alone, on every response
InitFetch ==
    /\ InitStore({EmptyBag})
    /\ InitWriters([w \in Writers |-> 0])
    /\ InitMainOff
    /\ fetchSym \in Symbols
    /\ fetchResp \in FetchResponses
    /\ fetchOut = Pending
NextFetch == FetchCall
SpecFetch == InitFetch /\ [][NextFetch]_vars

\* one writer, called on a table of unique keys, then called again
InitWriter ==
    /\ InitStore(InitTablesUnique)
    /\ InitWriters([w \in Writers |-> IF w = 1 THEN 2 ELSE 0])
    /\ InitFetchIdle
    /\ InitMainOff
NextWriter == \E w \in Writers : HarnessCall(w) \/ WriterStep(w)
SpecWriter == InitWriter /\ [][NextWriter]_vars

\* one writer, called on any table, then called again
InitUpsert ==
    /\ InitStore(InitTablesAny)
    /\ InitWriters([w \in Writers |-> IF w = 1 THEN 2 ELSE 0])
    /\ InitFetchIdle
    /\ InitMainOff
SpecUpsert == InitUpsert /\ [][NextWriter]_vars

\* two jobs at once: each writer called once, on the same table
InitConc ==
    /\ InitStore({EmptyBag})
    /\ InitWriters([w \in Writers |-> 1])
    /\ InitFetchIdle
    /\ InitMainOff
NextConc == \E w \in Writers : ConcurrentCall(w) \/ WriterStep(w)
SpecConc == InitConc /\ [][NextConc]_vars

\* the job: main over a ticker list
InitJob ==
    /\ InitStore({EmptyBag})
    /\ InitWriters([w \in Writers |-> 0])
    /\ InitFetchIdle
    /\ InitMain(SeqsUpTo(Symbols, MaxTickers))
NextMain ==
    \/ MainRequest(MainResponses, MainWaits)
    \/ FetchCall
    \/ MainFetched
    \/ \E w \in Writers : WriterStep(w)
    \/ MainInserted
    \/ MainSleep
    \/ MainDone
SpecMain == InitJob /\ [][NextMain]_vars /\ WF_vars(NextMain)

\* the job over ticker lists long enough to fill the provider's window
InitRate ==
    /\ InitStore({EmptyBag})
    /\ InitWriters([w \in Writers |-> 0])
    /\ InitFetchIdle
    /\ InitMain({[i \in 1..n |-> "A"] : n \in 0..MaxRateTickers})
NextRate ==
    \/ MainRequest(RateResponses, RateWaits)
    \/ FetchCall
    \/ MainFetched
    \/ \E w \in Writers : WriterStep(w)
    \/ MainInserted
    \/ MainSleep
    \/ MainDone
SpecRate == InitRate /\ [][NextRate]_vars

(* ------------------------------------------------------------------ *)
(* Properties                                                           *)
(* ------------------------------------------------------------------ *)
FetchDone == fetchOut.exc \notin {"pending", "idle"}
WriterOver(w) == wpc[w] \in {"returned", "raised"}

\* the keys of a record list, and the last record of a list with the key k
KeysOfRecords(recs) == {KeyOf(recs[i]) : i \in 1..Len(recs)}
LastWithKey(recs, k) ==
    recs[CHOOSE i \in 1..Len(recs) :
           /\ KeyOf(recs[i]) = k
           /\ \A j \in (i + 1)..Len(recs) : KeyOf(recs[j]) # k]
\* the rows of t whose key is not in K
Outside(t, K) == [r \in {x \in DOMAIN t : KeyOf(x) \notin K} |-> t[r]]
\* the rows of t without FETCHED_AT, as a bag
ColsBag(t) ==
    [c \in {Cols(r) : r \in DOMAIN t} |->
        LET S == {r \in DOMAIN t : Cols(r) = c}
            RECURSIVE Sum(_)
            Sum(X) == IF X = {} THEN 0
                      ELSE LET x == CHOOSE y \in X : TRUE IN t[x] + Sum(X \ {x})
        IN Sum(S)]

\* a payload as the provider sends it: dates as YYYY-MM-DD, every field a number
ValidEntry(e) ==
    /\ e[1] \in {"2024-01-02", "2024-01-03"}
    /\ DOMAIN e[2] = FieldNames
    /\ \A f \in FieldNames \ {"5. volume"} : ~FloatRaises(e[2][f])
    /\ ~IntRaises(e[2]["5. volume"])
ValidPayload(resp) ==
    /\ resp.kind = "http"
    /\ resp.status = 200
    /\ resp.json
    /\ resp.hasTs
    /\ \A i \in 1..Len(resp.ts) : ValidEntry(resp.ts[i])

\* the failures of a fetch: no response, a status that is not a success, a body
\* that is not JSON or lacks the time series, an entry that does not parse
FailureCase(resp) ==
    \/ resp.kind = "timeout"
    \/ resp.status >= 400
    \/ ~resp.json
    \/ ~resp.hasTs
    \/ \E i \in 1..Len(resp.ts) :
         ParseEntry("A", resp.ts[i][1], resp.ts[i][2]).exc # "none"

\* C1: fetch_history_for_symbol never fails with an exception: whatever the
\* HTTP request does, it returns a sequence, an empty one in every failure case.
C1_FetchNeverRaises ==
    FetchDone =>
        /\ fetchOut.exc = "none"
        /\ (FailureCase(fetchResp) => fetchOut.records = <<>>)

\* C2: once the connection is open, every exit of insert_history_into_snowflake
\* leaves the connection closed and the cursor, if acquired, closed.
C2_ReleasedOnEveryExit ==
    \A w \in Writers : WriterOver(w) => (~connOpen[w] /\ cs[w] # "open")

\* C3: the deletes and inserts of one call are one transaction, committed once
\* after the last record; when a delete or insert fails no commit is issued, the
\* error reaches the caller and the committed table is as before the call.
C3_AllOrNothing ==
    /\ (wpc[1] = "returned" /\ records[1] # <<>>) => commits[1] = 1
    /\ (wpc[1] = "raised" /\ excAt[1] \in {"delete", "insert"}) =>
           (commits[1] = 0 /\ table = table0[1])

\* C4: the same record list upserted a second time leaves the table as the first
\* call left it, FETCHED_AT aside: one row for each key of the list, holding
\* the values the list gives that key.
C4_UpsertIdempotent ==
    (wpc[1] = "returned" /\ repeat[1]) =>
        /\ ColsBag(table) = ColsBag(table0[1])
        /\ \A k \in KeysOfRecords(records[1]) :
             /\ CountKey(table, k) = 1
             /\ \A r \in RowsWithKey(table, k) : Cols(r) = LastWithKey(records[1], k)
C4_Witness ==
    /\ wpc[1] = "returned"
    /\ repeat[1]
    /\ Len(records[1]) >= 2
    /\ table # table0[1]
    /\ ColsBag(table) = ColsBag(table0[1])

\* C5: from a table of unique keys, every state of sequential writer calls,
\* the states inside the delete-then-insert loop included, has at most one row
\* for each (as_of_date, symbol), while no insert is ever rejected.
C5_UniqueKeys == UniqueKeyed(table) /\ UniqueKeyed(session)
C5_Witness ==
    /\ wpc[1] = "delete"
    /\ idx[1] = 2
    /\ KeyOf(records[1][1]) = KeyOf(records[1][2])
    /\ records[1][1] # records[1][2]
    /\ CountKey(table0[1], KeyOf(records[1][1])) = 1
    /\ CountKey(Base(1), KeyOf(records[1][1])) = 1

\* the fetch outcomes a run survives or uses: a warning, or records
ClaimedOutcome(resp) ==
    \/ Recoverable(resp)
    \/ /\ resp.kind = "http"
       /\ resp.status = 200
       /\ resp.json
       /\ resp.hasTs
       /\ \A i \in 1..Len(resp.ts) :
            ParseEntry("A", resp.ts[i][1], resp.ts[i][2]).exc = "none"

C6_Safe ==
    \* one fetch for each ticker so far, in the list's order
    /\ Len(httpCalls) <= Len(tickers)
    /\ httpCalls = SubSeq(tickers, 1, Len(httpCalls))
    /\ Len(httpCalls) = (IF mpc \in {"loop", "done"} THEN ti - 1 ELSE ti)
    \* no database call for a ticker whose fetch returned nothing
    /\ (mpc \in {"insert", "sleep"} /\ fetchOut.records = <<>>) => dbOps = 0
    \* only a fetch that raised or a database failure ends the run early
    /\ mpc = "crashed" =>
         \/ crashCause = "fetch" /\ ~ClaimedOutcome(fetchResp)
         \/ crashCause = "database" /\ exc[1] # "none"
    \* the run ends having fetched every ticker, reporting what the fetches returned
    /\ mpc = "done" => (httpCalls = tickers /\ total = sumFetched)
    \* the empty list: no HTTP call, no database call, a total of 0
    /\ tickers = <<>> => (httpCalls = <<>> /\ dbOps = 0 /\ dbNow = 0 /\ total = 0)

\* C6: a recoverable failure of one symbol never ends the run: main fetches each
\* ticker once, in order, makes no database call for an empty fetch, and ends
\* reporting the sum of the record counts fetched, unless a fetch raises or the
\* database fails.
C6_RunCompletes == [](C6_Safe) /\ <>(mpc \in {"done", "crashed"})
C6_Witness ==
    /\ mpc = "done"
    /\ Len(tickers) >= 2
    /\ total > 0
    /\ Recoverable(fetchResp)
    /\ total = sumFetched

\* C7: a call that returns changes only rows whose key is a key of its records:
\* every other row is as it was when the call began.
C7_OtherRowsUntouched ==
    wpc[1] = "returned" =>
        Outside(table, KeysOfRecords(records[1])) = Outside(table0[1], KeysOfRecords(records[1]))
C7_Witness ==
    /\ wpc[1] = "returned"
    /\ records[1] # <<>>
    /\ \E r \in DOMAIN table0[1], q \in DOMAIN table0[1], i \in 1..Len(records[1]) :
         \* another symbol on a date written, and another date of a symbol written
         /\ r[1] = records[1][i][1] /\ r[2] # records[1][i][2]
         /\ q[2] = records[1][i][2] /\ q[1] # records[1][i][1]
         /\ KeyOf(q) \notin KeysOfRecords(records[1])
         /\ KeyOf(r) \notin KeysOfRecords(records[1])
         /\ r \in DOMAIN table /\ q \in DOMAIN table

\* C8: on a valid payload the fetcher returns one record for each date entry,
\* each tagged with the symbol asked for, in strictly ascending order of date.
C8_SortedOnePerDate ==
    (FetchDone /\ ValidPayload(fetchResp)) =>
        /\ fetchOut.exc = "none"
        /\ Len(fetchOut.records) = Len(fetchResp.ts)
        /\ {r[1] : r \in {fetchOut.records[i] : i \in 1..Len(fetchOut.records)}}
             = {Strptime(fetchResp.ts[i][1]) : i \in 1..Len(fetchResp.ts)}
        /\ \A i \in 1..Len(fetchOut.records) : fetchOut.records[i][2] = fetchSym
        /\ \A i \in 1..(Len(fetchOut.records) - 1) :
             fetchOut.records[i][1] < fetchOut.records[i + 1][1]
C8_Witness ==
    /\ FetchDone
    /\ ValidPayload(fetchResp)
    /\ Len(fetchResp.ts) = 2
    /\ Strptime(fetchResp.ts[1][1]) > Strptime(fetchResp.ts[2][1])
    /\ fetchOut.records[1][1] < fetchOut.records[2][1]

\* C9: two consecutive HTTP requests of main are at least 15 time units apart,
\* so no window of 60 time units holds more than 5 requests.
C9_RateLimit ==
    /\ \A i \in 1..(Len(reqTimes) - 1) : reqTimes[i + 1] - reqTimes[i] >= SleepSeconds
    /\ \A i \in 1..(Len(reqTimes) - RateLimitCalls) :
         reqTimes[i + RateLimitCalls] - reqTimes[i] > RateWindow
C9_Witness ==
    /\ Len(reqTimes) > RateLimitCalls
    /\ reqTimes[Len(reqTimes)] - reqTimes[Len(reqTimes) - RateLimitCalls]
         = RateLimitCalls * SleepSeconds
    /\ total > 0
    /\ mpc = "sleep"
    /\ fetchOut.records = <<>>

\* C10: two writers at once can leave two rows with one key; rows with one key
\* never come from calls that did not overlap.
C10_DuplicatesOnlyWhenOverlapping == ~UniqueKeyed(table) => overlapped
C10_Race ==
    /\ \E k \in KeysOf(table) : CountKey(table, k) = 2
    /\ \A w \in Writers : wpc[w] = "returned" /\ Len(records[w]) = 1
    /\ KeyOf(records[1][1]) = KeyOf(records[2][1])

====
